---- MODULE Spec2Model ----
(***************************************************************************)
(* A model of the viewport-driven renderer of AI-pdf-viewer:               *)
(*   - PDFService (src/src/services/pdfService.ts): the document handle    *)
(*     and the bounded page cache;                                         *)
(*   - useVirtualScroll (src/src/hooks/useVirtualScroll.ts): the visible   *)
(*     range and the current page;                                         *)
(*   - PDFViewer.renderPage / usePDFRenderer (the viewer component and the *)
(*     per-page render hook): asynchronous page renders;                   *)
(*   - CanvasPool (src/src/services/canvasPool.ts): the pool of reusable   *)
(*     canvases;                                                           *)
(*   - CloudSyncService (src/unnamed/part_009): the local cache of         *)
(*     syncable items and its upload to the cloud.                         *)
(* Every asynchronous function is split at its awaits: the part before an  *)
(* await and the part after it are separate actions, and anything may run  *)
(* in between, as on the JavaScript event loop.                            *)
(***************************************************************************)
EXTENDS Integers, Sequences, FiniteSets, Bags, TLC

VARIABLES
    (* PDFService *)
    document,       \* this.document: NoDoc (null) or the id of the open document
    pageCache,      \* this.pageCache: the Map's entries in insertion order
    maxCacheSize,   \* this.maxCacheSize
    loads,          \* documents whose loadDocument call awaits the renderer
    calls,          \* getPage calls suspended at `await this.document.getPage`
    nextDoc,        \* number of documents the renderer has been asked to open
    nextCall,       \* number of page handles the renderer has been asked for
    lastCall,       \* observation: the service call that ran last and its outcome
    inserted,       \* observation: the cached page numbers, in the order in
                    \* which their keys were inserted
    returned,       \* observation: per page, the handle the last finished
                    \* getPage returned, forgotten when the key leaves the cache
    accessed,       \* observation: the cached page numbers, the one a getPage
                    \* returned longest ago first
    (* useVirtualScroll *)
    config,         \* the hook's argument: totalPages, pageHeight, overscan
    container,      \* containerRef.current: scrollTop and clientHeight
    visibleRange,   \* useState: {start, end}
    currentPage,    \* useState
    isScrolling,    \* useState
    listening,      \* the effect has run and the scroll listener is attached
    frames,         \* handleScroll callbacks queued by requestAnimationFrame,
                    \* each with the configuration it closed over
    timerArmed,     \* scrollTimeoutRef.current names a pending timeout
    quietLeft,      \* milliseconds until the pending timeout fires
    sample,         \* observation: the inputs handleScroll read last
    sinceSample,    \* observation: milliseconds since handleScroll ran last,
                    \* counted up to the quiet period
    scrolledTo,     \* observation: the argument of the last scrollToPage call
    mounted,        \* the component that uses the hook is mounted
    (* PDFViewer / usePDFRenderer *)
    scale,          \* usePDFStore().scale, in tenths
    rotation,       \* usePDFStore().rotation, in degrees
    isLoading,      \* usePDFStore().isLoading
    renders,        \* pdfService.renderPage calls suspended at an await (a bag)
    latest,         \* observation: per caller and page, the request issued last
    renderedPages,  \* PDFViewer's renderedPages map: page -> the canvas stored
    canvasShown,    \* PDFPage's <canvas>: page -> the request that drew on it last
    failed,         \* observation: pages whose PDFViewer request was rejected and
                    \* that PDFViewer has neither requested again nor stored since
    (* CanvasPool *)
    pool,           \* this.pool: canvases, the one released last at the end
    poolMaxSize,    \* this.maxSize
    canvases,       \* the canvas elements created: width, height, painted
    nextCanvas,     \* number of canvases document.createElement has made
    held,           \* observation: canvases acquire handed out that have not
                    \* been released since
    pooledOrder,    \* observation: the pooled canvases in the order in which
                    \* they entered the pool
    lastPool,       \* observation: the pool call that ran last and its outcome
    resizing,       \* a setMaxSize call is in its while loop
    (* CloudSyncService *)
    localCache,     \* this.localCache: the Map's entries in insertion order
    syncing,        \* this.syncStatus.syncing
    syncPending,    \* this.syncStatus.pending
    syncError,      \* this.syncStatus.error
    credentials,    \* this.config holds an apiKey and an apiUrl
    uploads,        \* sync()'s `pending` array from the entry being uploaded on
    syncPc,         \* where the running sync() is suspended, or "idle"
    clock,          \* the number of saveLocal calls: what new Date() stamps
    lastSync,       \* this.syncStatus.lastSync: 0 (null) or a clock reading
    savedVersion,   \* observation: per id, the version saveLocal stored last
    uploadedVersion \* observation: per id, the version uploaded last

cacheVars  == <<document, pageCache, maxCacheSize, loads, calls, nextDoc,
                nextCall, lastCall, inserted, returned, accessed>>
scrollVars == <<config, container, visibleRange, currentPage, isScrolling,
                listening, frames, timerArmed, quietLeft, sample, sinceSample,
                scrolledTo, mounted>>
renderVars == <<scale, rotation, isLoading, renders, latest, renderedPages,
                canvasShown, failed>>
poolVars   == <<pool, poolMaxSize, canvases, nextCanvas, held, pooledOrder,
                lastPool, resizing>>
syncVars   == <<localCache, syncing, syncPending, syncError, credentials,
                uploads, syncPc, clock, lastSync, savedVersion,
                uploadedVersion>>
vars == <<cacheVars, scrollVars, renderVars, poolVars, syncVars>>

----------------------------------------------------------------------------
(* Bounds of the model.                                                    *)

\* The cache capacity the cache specification starts from.  The source starts
\* from 20 (DefaultMaxCacheSize); the cache's behaviour depends on the capacity
\* only through `size >= maxCacheSize`, and the checked capacity is kept small
\* so that every fill level, the full cache included, is reached.
CacheCapacity == 2
\* loadDocument calls per behaviour.
MaxLoads == 2
\* getPage calls that reach the external renderer per behaviour.
MaxCalls == 4

\* The hook's configuration and its container: largest values drawn.
MaxTotalPages == 3
MaxPageHeight == 2
MaxOverscan == 2
MaxScrollTop == 6
MaxClientHeight == 3
\* requestAnimationFrame callbacks queued at once.
MaxFrames == 2

\* The viewer: pages of the open document, largest scroll offset (in pages),
\* and render requests in flight at once.
ViewerTotalPages == 2
ViewerMaxScrollTop == 1
MaxRenders == 4

\* Largest argument given to setMaxCacheSize.
MaxCapacityArg == 52

\* CanvasPool: canvases that can exist, the capacity the checked pool is
\* constructed with, the largest argument of setMaxSize, the largest width
\* and height asked of acquire.
MaxCanvases == 3
PoolCapacity == 2
MaxPoolArg == 3
\* setMaxSize is also given the negative numbers down to this many below 0.
MaxNegPoolArg == 1
MaxDim == 1

\* Time passes in steps of this many milliseconds.
TickMs == 50

\* CloudSyncService: ids of syncable items, and saveLocal calls per behaviour.
MaxSyncIds == 2
MaxSaves == 3

\* The end-to-end scenario scrolls in steps of half a page, up to this many.
MaxScenarioSteps == 10

\* Page numbers requested: one more than fits, so that a full cache misses.
Pages == 1 .. (CacheCapacity + 1)

----------------------------------------------------------------------------
(* PDFService: values.                                                     *)

NoDoc == 0
NoHandle == [doc |-> 0, page |-> 0, id |-> 0]
\* private maxCacheSize = 20
DefaultMaxCacheSize == 20

\* A page handle: the object the renderer's getPage resolves with.  Two fetches
\* give two objects (the test's mock builds a new one per call), so a handle is
\* named by the fetch that produced it.
Handle(d, p, i) == [doc |-> d, page |-> p, id |-> i]

Min(a, b) == IF a <= b THEN a ELSE b
Max(a, b) == IF a >= b THEN a ELSE b

\* Map.prototype.keys(), in insertion order.
Keys(c) == [i \in 1 .. Len(c) |-> c[i].page]
KeySet(c) == {c[i].page : i \in 1 .. Len(c)}
\* Map.prototype.has
MapHas(c, k) == k \in KeySet(c)
\* Map.prototype.get, for a key that is present.
MapGet(c, k) == (CHOOSE i \in 1 .. Len(c) : c[i].page = k)
MapValue(c, k) == c[MapGet(c, k)].handle
\* Map.prototype.delete
MapDelete(c, k) == SelectSeq(c, LAMBDA e : e.page # k)
\* Map.prototype.set: a present key keeps its place and takes the new value, a
\* new key goes last.
MapSet(c, k, v) ==
    IF MapHas(c, k)
    THEN [i \in 1 .. Len(c) |-> IF c[i].page = k THEN [page |-> k, handle |-> v] ELSE c[i]]
    ELSE Append(c, [page |-> k, handle |-> v])

LastKey(c) == c[Len(c)].page
\* this.pageCache.keys().next().value, of a non-empty map.
FirstKey(c) == c[1].page

AfterEvictionNoRoom(c, max) ==
    IF Len(c) > max /\ Len(c) > 0 THEN MapDelete(c, FirstKey(c)) ELSE c
\* if (this.pageCache.size >= this.maxCacheSize) { delete the first key }
\* (firstKey is a number whenever the map is non-empty).
AfterEviction(c, max) ==
    IF Len(c) >= max /\ Len(c) > 0 THEN MapDelete(c, FirstKey(c)) ELSE c

\* getPage after its await: evict if at capacity, then this.pageCache.set.
StorePage(c, max, p, h) == MapSet(AfterEviction(c, max), p, h)

\* Observation of key insertions and removals between two maps: removed keys
\* are dropped from the record `ins`, a new key is added at its end.
Record(ins, c, d) ==
    LET kept == SelectSeq(ins, LAMBDA k : MapHas(d, k))
        new == {k \in KeySet(d) : ~MapHas(c, k)}
    IN  IF new = {} THEN kept ELSE Append(kept, CHOOSE k \in new : TRUE)
Forget(d) == [p \in Pages |-> IF MapHas(d, p) THEN returned[p] ELSE NoHandle]
\* Observation of accesses: key k becomes the one used last; keys that left
\* the map d are dropped.
Touch(acc, k) == Append(SelectSeq(acc, LAMBDA j : j # k), k)
Still(acc, d) == SelectSeq(acc, LAMBDA j : MapHas(d, j))

----------------------------------------------------------------------------
(* PDFService: state after construction.                                   *)

NoCall == [kind |-> "none", handle |-> NoHandle, evicted |-> 0, arg |-> 0]

InitService(capacity) ==
    /\ document = NoDoc
    /\ pageCache = <<>>
    /\ maxCacheSize = capacity
    /\ loads = {}
    /\ calls = {}
    /\ nextDoc = 0
    /\ nextCall = 0
    /\ lastCall = NoCall
    /\ inserted = <<>>
    /\ returned = [p \in Pages |-> NoHandle]
    /\ accessed = <<>>

----------------------------------------------------------------------------
(* PDFService.loadDocument                                                 *)

\* const loadingTask = pdfjsLib.getDocument({ data }); the call suspends at
\* `await loadingTask.promise`.
LoadDocument ==
    /\ nextDoc < MaxLoads
    /\ nextDoc' = nextDoc + 1
    /\ loads' = loads \cup {nextDoc + 1}
    /\ UNCHANGED <<document, pageCache, maxCacheSize, calls, nextCall, lastCall,
                   inserted, accessed, returned>>
    /\ UNCHANGED <<scrollVars, renderVars, poolVars, syncVars>>

\* The renderer opened the document: this.document = ...  The page cache is
\* not touched and the document replaced, if any, is not destroyed.  The rest
\* of loadDocument (getMetadata, building the metadata object) assigns no field
\* of the service, so the call is followed no further.
LoadOpened(d) ==
    /\ d \in loads
    /\ document' = d
    /\ loads' = loads \ {d}
    /\ UNCHANGED <<pageCache, maxCacheSize, calls, nextDoc, nextCall, lastCall,
                   inserted, accessed, returned>>
    /\ UNCHANGED <<scrollVars, renderVars, poolVars, syncVars>>

\* The renderer rejected the data: loadDocument throws, nothing is assigned.
LoadRejected(d) ==
    /\ d \in loads
    /\ loads' = loads \ {d}
    /\ UNCHANGED <<document, pageCache, maxCacheSize, calls, nextDoc, nextCall,
                   lastCall, inserted, accessed, returned>>
    /\ UNCHANGED <<scrollVars, renderVars, poolVars, syncVars>>

----------------------------------------------------------------------------
(* PDFService.getPage                                                      *)

\* if (!this.document) throw new Error('Document not loaded')
GetPageNotLoaded(p) ==
    /\ document = NoDoc
    /\ lastCall' = [kind |-> "not loaded", handle |-> NoHandle, evicted |-> 0, arg |-> 0]
    /\ UNCHANGED <<document, pageCache, maxCacheSize, loads, calls, nextDoc,
                   nextCall, inserted, accessed, returned>>
    /\ UNCHANGED <<scrollVars, renderVars, poolVars, syncVars>>

GetPageHitUnguarded(p) ==
    /\ MapHas(pageCache, p)
    /\ lastCall' = [kind |-> "hit", handle |-> MapValue(pageCache, p), evicted |-> 0, arg |-> 0]
    /\ returned' = [returned EXCEPT ![p] = MapValue(pageCache, p)]
    /\ accessed' = Touch(accessed, p)
    /\ UNCHANGED <<document, pageCache, maxCacheSize, loads, calls, nextDoc,
                   nextCall, inserted>>
    /\ UNCHANGED <<scrollVars, renderVars, poolVars, syncVars>>
\* const cachedPage = this.pageCache.get(pageNumber);
\* if (cachedPage) return cachedPage;
GetPageHit(p) ==
    /\ document # NoDoc
    /\ MapHas(pageCache, p)
    /\ lastCall' = [kind |-> "hit", handle |-> MapValue(pageCache, p), evicted |-> 0, arg |-> 0]
    /\ returned' = [returned EXCEPT ![p] = MapValue(pageCache, p)]
    /\ accessed' = Touch(accessed, p)
    /\ UNCHANGED <<document, pageCache, maxCacheSize, loads, calls, nextDoc,
                   nextCall, inserted>>
    /\ UNCHANGED <<scrollVars, renderVars, poolVars, syncVars>>

\* A miss: this.document.getPage(pageNumber) is called on the document that is
\* open now, and the call suspends until the renderer settles it.
GetPageMiss(p) ==
    /\ document # NoDoc
    /\ ~MapHas(pageCache, p)
    /\ nextCall < MaxCalls
    /\ nextCall' = nextCall + 1
    /\ calls' = calls \cup {[id |-> nextCall + 1, page |-> p, doc |-> document]}
    /\ lastCall' = [kind |-> "fetching", handle |-> NoHandle, evicted |-> 0, arg |-> 0]
    /\ UNCHANGED <<document, pageCache, maxCacheSize, loads, nextDoc,
                   inserted, accessed, returned>>
    /\ UNCHANGED <<scrollVars, renderVars, poolVars, syncVars>>

\* getPage up to its first return, throw or await.
GetPage(p) == GetPageNotLoaded(p) \/ GetPageHit(p) \/ GetPageMiss(p)

GetPageResolvedNoStore(c) ==
    /\ c \in calls
    /\ calls' = calls \ {c}
    /\ lastCall' = [kind |-> "miss", handle |-> Handle(c.doc, c.page, c.id), evicted |-> 0, arg |-> 0]
    /\ returned' = [returned EXCEPT ![c.page] = Handle(c.doc, c.page, c.id)]
    /\ UNCHANGED <<document, pageCache, maxCacheSize, loads, nextDoc, nextCall,
                   inserted, accessed>>
    /\ UNCHANGED <<scrollVars, renderVars, poolVars, syncVars>>
\* The renderer resolved the page: evict if at capacity, set, return the page.
\* Neither this.document nor the cache is looked at again before the set.
GetPageResolved(c) ==
    LET h == Handle(c.doc, c.page, c.id)
        e == AfterEviction(pageCache, maxCacheSize)
        d == StorePage(pageCache, maxCacheSize, c.page, h)
        gone == KeySet(pageCache) \ KeySet(e)
    IN  /\ c \in calls
        /\ calls' = calls \ {c}
        /\ pageCache' = d
        /\ lastCall' = [kind |-> "miss", handle |-> h,
                        evicted |-> IF gone = {} THEN 0 ELSE CHOOSE k \in gone : TRUE,
                        arg |-> 0]
        /\ inserted' = Record(Record(inserted, pageCache, e), e, d)
        /\ returned' = [Forget(d) EXCEPT ![c.page] = h]
        /\ accessed' = Touch(Still(accessed, d), c.page)
        /\ UNCHANGED <<document, maxCacheSize, loads, nextDoc, nextCall>>
        /\ UNCHANGED <<scrollVars, renderVars, poolVars, syncVars>>

\* The renderer rejected the page (out of range, document destroyed): getPage
\* throws and the cache stays as it is.
GetPageRejected(c) ==
    /\ c \in calls
    /\ calls' = calls \ {c}
    /\ lastCall' = [kind |-> "rejected", handle |-> NoHandle, evicted |-> 0, arg |-> 0]
    /\ UNCHANGED <<document, pageCache, maxCacheSize, loads, nextDoc, nextCall,
                   inserted, accessed, returned>>
    /\ UNCHANGED <<scrollVars, renderVars, poolVars, syncVars>>

----------------------------------------------------------------------------
(* PDFService.cleanup                                                      *)

CleanupKeepsDocument ==
    /\ pageCache' = <<>>
    /\ inserted' = <<>>
    /\ returned' = [p \in Pages |-> NoHandle]
    /\ accessed' = <<>>
    /\ lastCall' = [kind |-> "cleanup", handle |-> NoHandle, evicted |-> 0, arg |-> 0]
    /\ UNCHANGED <<document, maxCacheSize, loads, calls, nextDoc, nextCall>>
    /\ UNCHANGED <<scrollVars, renderVars, poolVars, syncVars>>
\* this.pageCache.clear(); if (this.document) { destroy(); this.document = null }
Cleanup ==
    /\ pageCache' = <<>>
    /\ document' = NoDoc
    /\ inserted' = <<>>
    /\ returned' = [p \in Pages |-> NoHandle]
    /\ accessed' = <<>>
    /\ lastCall' = [kind |-> "cleanup", handle |-> NoHandle, evicted |-> 0, arg |-> 0]
    /\ UNCHANGED <<maxCacheSize, loads, calls, nextDoc, nextCall>>
    /\ UNCHANGED <<scrollVars, renderVars, poolVars, syncVars>>

----------------------------------------------------------------------------
(* PDFService.setMaxCacheSize and getCacheStats: called by the service's    *)
(* tests, not defined in the source at hand; modelled from the design       *)
(* document (clamp to [5, 50], evict the excess at once).                   *)

\* expect(stats.maxSize).toBe(5) after setMaxCacheSize(2), toBe(50) after 100.
MinCacheSize == 5
MaxCacheSizeLimit == 50

\* The first `n` entries removed, oldest first.
DropOldest(c, n) == SubSeq(c, n + 1, Len(c))

SetMaxCacheSizeUnclamped(n) ==
    /\ maxCacheSize' = n
    /\ pageCache' = DropOldest(pageCache, Max(0, Len(pageCache) - Max(0, n)))
    /\ inserted' = DropOldest(inserted, Max(0, Len(pageCache) - Max(0, n)))
    /\ returned' = returned
    /\ accessed' = Still(accessed, DropOldest(pageCache, Max(0, Len(pageCache) - Max(0, n))))
    /\ lastCall' = [kind |-> "setMaxCacheSize", handle |-> NoHandle, evicted |-> 0, arg |-> n]
    /\ UNCHANGED <<document, loads, calls, nextDoc, nextCall>>
    /\ UNCHANGED <<scrollVars, renderVars, poolVars, syncVars>>
SetMaxCacheSize(n) ==
    LET size == Max(MinCacheSize, Min(MaxCacheSizeLimit, n))
        excess == Max(0, Len(pageCache) - size)
    IN  /\ maxCacheSize' = size
        /\ pageCache' = DropOldest(pageCache, excess)
        /\ inserted' = DropOldest(inserted, excess)
        /\ returned' = Forget(DropOldest(pageCache, excess))
        /\ accessed' = Still(accessed, DropOldest(pageCache, excess))
        /\ lastCall' = [kind |-> "setMaxCacheSize", handle |-> NoHandle, evicted |-> 0, arg |-> n]
        /\ UNCHANGED <<document, loads, calls, nextDoc, nextCall>>
        /\ UNCHANGED <<scrollVars, renderVars, poolVars, syncVars>>

\* getCacheStats().maxSize
StatsMaxSize == maxCacheSize

----------------------------------------------------------------------------
(* useVirtualScroll: the range arithmetic of handleScroll.  Lengths are     *)
(* whole numbers of an arbitrary unit; pageHeight is positive.             *)

\* Math.floor(a / b) and Math.ceil(a / b), for b > 0.
FloorDiv(a, b) == a \div b
CeilDiv(a, b) == -((-a) \div b)

Undefined == -1
\* const overscan = config.overscan ?? 2
Overscan(cfg) == IF cfg.overscan = Undefined THEN 2 ELSE cfg.overscan

VisibleStartPlusOverscan(scrollTop, pageHeight, overscan) ==
    Max(0, FloorDiv(scrollTop, pageHeight) + overscan)
\* Math.max(0, Math.floor(scrollTop / config.pageHeight) - overscan)
VisibleStart(scrollTop, pageHeight, overscan) ==
    Max(0, FloorDiv(scrollTop, pageHeight) - overscan)

VisibleEndNoOverscan(scrollTop, viewportHeight, pageHeight, overscan, totalPages) ==
    Min(totalPages, CeilDiv(scrollTop + viewportHeight, pageHeight))
VisibleEndInclusive(scrollTop, viewportHeight, pageHeight, overscan, totalPages) ==
    Min(totalPages, CeilDiv(scrollTop + viewportHeight, pageHeight) + overscan + 1)
\* Math.min(config.totalPages,
\*          Math.ceil((scrollTop + viewportHeight) / config.pageHeight) + overscan)
VisibleEnd(scrollTop, viewportHeight, pageHeight, overscan, totalPages) ==
    Min(totalPages, CeilDiv(scrollTop + viewportHeight, pageHeight) + overscan)

CurrentPageNumberFloor(scrollTop, viewportHeight, pageHeight, totalPages) ==
    Max(1, Min(FloorDiv(2 * scrollTop + viewportHeight, 2 * pageHeight), totalPages))
\* visibleCenter = scrollTop + viewportHeight / 2;
\* Math.max(1, Math.min(Math.ceil(visibleCenter / config.pageHeight), config.totalPages))
\* The half is kept exact by doubling numerator and denominator.
CurrentPageNumber(scrollTop, viewportHeight, pageHeight, totalPages) ==
    Max(1, Min(CeilDiv(2 * scrollTop + viewportHeight, 2 * pageHeight), totalPages))

\* useState<VisibleRange>({ start: 0, end: Math.min(overscan * 2, config.totalPages) })
InitialRange(cfg) == [start |-> 0, end |-> Min(Overscan(cfg) * 2, cfg.totalPages)]

----------------------------------------------------------------------------
(* useVirtualScroll: state after the first render.                         *)

\* window.setTimeout(() => { setIsScrolling(false) }, 150)
QuietMs == 150

NoContainer == [scrollTop |-> -1, clientHeight |-> -1]
NoSample == [scrollTop |-> -1, viewportHeight |-> -1, config |-> <<>>]

Configs ==
    [totalPages : 0 .. MaxTotalPages,
     pageHeight : 1 .. MaxPageHeight,
     overscan : {Undefined} \cup (0 .. MaxOverscan)]

\* The state hooks hold their initial values; the effect has not run yet.
InitScroll(cfgs, containers) ==
    /\ config \in cfgs
    /\ container \in containers
    /\ visibleRange = InitialRange(config)
    /\ currentPage = 1
    /\ isScrolling = FALSE
    /\ listening = FALSE
    /\ frames = <<>>
    /\ timerArmed = FALSE
    /\ quietLeft = 0
    /\ sample = NoSample
    /\ sinceSample = 0
    /\ scrolledTo = Undefined
    /\ mounted = TRUE

----------------------------------------------------------------------------
(* useVirtualScroll: the effect, the scroll listener and the timers.       *)

HandleScrollKeepTimer(cfg) ==
    LET scrollTop == container.scrollTop
        viewportHeight == container.clientHeight
    IN  /\ isScrolling' = TRUE
        /\ timerArmed' = TRUE
        /\ quietLeft' = IF timerArmed THEN quietLeft ELSE QuietMs
        /\ sinceSample' = 0
        /\ visibleRange' =
               [start |-> VisibleStart(scrollTop, cfg.pageHeight, Overscan(cfg)),
                end |-> VisibleEnd(scrollTop, viewportHeight, cfg.pageHeight,
                                   Overscan(cfg), cfg.totalPages)]
        /\ currentPage' = CurrentPageNumber(scrollTop, viewportHeight,
                                            cfg.pageHeight, cfg.totalPages)
        /\ sample' = [scrollTop |-> scrollTop, viewportHeight |-> viewportHeight,
                      config |-> cfg]
\* handleScroll, as closed over the configuration `cfg` of the render that
\* created it: read the container, restart the quiet-period timeout, compute
\* and publish the range and the current page.
HandleScroll(cfg) ==
    LET scrollTop == container.scrollTop
        viewportHeight == container.clientHeight
    IN  /\ isScrolling' = TRUE
        /\ timerArmed' = TRUE
        /\ quietLeft' = QuietMs
        /\ sinceSample' = 0
        /\ visibleRange' =
               [start |-> VisibleStart(scrollTop, cfg.pageHeight, Overscan(cfg)),
                end |-> VisibleEnd(scrollTop, viewportHeight, cfg.pageHeight,
                                   Overscan(cfg), cfg.totalPages)]
        /\ currentPage' = CurrentPageNumber(scrollTop, viewportHeight,
                                            cfg.pageHeight, cfg.totalPages)
        /\ sample' = [scrollTop |-> scrollTop, viewportHeight |-> viewportHeight,
                      config |-> cfg]

\* useEffect body after the first commit: `if (!container) return`, else add
\* the listener and call handleScroll() once.
EffectRun ==
    /\ mounted
    /\ ~listening
    /\ container # NoContainer
    /\ listening' = TRUE
    /\ HandleScroll(config)
    /\ UNCHANGED <<config, container, frames, scrolledTo, mounted>>

\* The user (or scrollTo) moves the container; its scroll event runs
\* debouncedScroll, which queues handleScroll for the next animation frame.
ScrollEvent(top) ==
    /\ listening
    /\ top # container.scrollTop
    /\ Len(frames) < MaxFrames
    /\ container' = [container EXCEPT !.scrollTop = top]
    /\ frames' = Append(frames, config)
    /\ UNCHANGED <<config, visibleRange, currentPage, isScrolling, listening,
                   timerArmed, quietLeft, sample, sinceSample, scrolledTo, mounted>>

ScrollToPageZeroBased(pageNumber) ==
    LET targetPage == Max(1, Min(pageNumber, config.totalPages))
        scrollTop == targetPage * config.pageHeight
    IN  /\ scrolledTo' = pageNumber
        /\ IF container = NoContainer
           THEN UNCHANGED <<container, frames>>
           ELSE /\ Len(frames) < MaxFrames
                /\ container' = [container EXCEPT !.scrollTop = scrollTop]
                /\ frames' = IF listening /\ scrollTop # container.scrollTop
                             THEN Append(frames, config) ELSE frames
        /\ UNCHANGED <<config, visibleRange, currentPage, isScrolling, listening,
                       timerArmed, quietLeft, sample, sinceSample, mounted>>
\* scrollToPage(pageNumber): `if (!container) return`; else
\* container.scrollTo({ top: (targetPage - 1) * pageHeight }) with targetPage =
\* Math.max(1, Math.min(pageNumber, totalPages)).  The container arrives at the
\* requested offset (its content is taller than that) and, if it moved, its
\* scroll event queues handleScroll like any other.
ScrollToPage(pageNumber) ==
    LET targetPage == Max(1, Min(pageNumber, config.totalPages))
        scrollTop == (targetPage - 1) * config.pageHeight
    IN  /\ scrolledTo' = pageNumber
        /\ IF container = NoContainer
           THEN UNCHANGED <<container, frames>>
           ELSE /\ Len(frames) < MaxFrames
                /\ container' = [container EXCEPT !.scrollTop = scrollTop]
                /\ frames' = IF listening /\ scrollTop # container.scrollTop
                             THEN Append(frames, config) ELSE frames
        /\ UNCHANGED <<config, visibleRange, currentPage, isScrolling, listening,
                       timerArmed, quietLeft, sample, sinceSample, mounted>>

\* The layout changes the container's height; no scroll event is fired.
Resize(height) ==
    /\ container # NoContainer
    /\ height # container.clientHeight
    /\ container' = [container EXCEPT !.clientHeight = height]
    /\ UNCHANGED <<config, visibleRange, currentPage, isScrolling, listening,
                   frames, timerArmed, quietLeft, sample, sinceSample, scrolledTo, mounted>>

\* requestAnimationFrame runs the handleScroll queued first.
AnimationFrame ==
    /\ mounted
    /\ frames # <<>>
    /\ frames' = Tail(frames)
    /\ HandleScroll(Head(frames))
    /\ UNCHANGED <<config, container, listening, scrolledTo, mounted>>

\* The 150 ms timeout fires: setIsScrolling(false).
QuietTimeout ==
    /\ mounted
    /\ timerArmed
    /\ timerArmed' = FALSE
    /\ isScrolling' = FALSE
    /\ UNCHANGED <<config, container, visibleRange, currentPage, listening,
                   frames, quietLeft, sample, sinceSample, scrolledTo, mounted>>

\* TickMs milliseconds pass.  A timeout that is due fires before more time
\* passes.
Tick ==
    /\ sample # NoSample
    /\ ~(timerArmed /\ quietLeft = 0)
    /\ timerArmed \/ sinceSample < QuietMs
    /\ quietLeft' = IF timerArmed THEN Max(0, quietLeft - TickMs) ELSE quietLeft
    /\ sinceSample' = Min(QuietMs, sinceSample + TickMs)
    /\ UNCHANGED <<config, container, visibleRange, currentPage, isScrolling,
                   listening, frames, timerArmed, sample, scrolledTo, mounted>>

\* The timeout fires when its 150 ms have passed.
QuietElapsed == quietLeft = 0 /\ QuietTimeout

\* The hook is rendered with another configuration: the effect's dependencies
\* changed, so its cleanup runs (listener removed, timeout cleared) and the
\* effect runs again (listener added, handleScroll() called).  Callbacks
\* already queued for an animation frame stay queued.
ConfigChanged(cfg) ==
    /\ listening
    /\ cfg # config
    /\ config' = cfg
    /\ HandleScroll(cfg)
    /\ UNCHANGED <<container, listening, frames, scrolledTo, mounted>>

\* The component unmounts: the effect's cleanup, if the effect got as far as
\* returning one, removes the listener and clears the pending timeout.
\* Callbacks queued with requestAnimationFrame are not cancelled.
Unmount ==
    /\ mounted
    /\ mounted' = FALSE
    /\ listening' = FALSE
    /\ timerArmed' = IF listening THEN FALSE ELSE timerArmed
    /\ UNCHANGED <<config, container, visibleRange, currentPage, isScrolling,
                   frames, quietLeft, sample, sinceSample, scrolledTo>>

\* A handleScroll queued before the unmount runs after it: it clears the
\* timeout the ref names and sets a new one of 150 ms.  React ignores the
\* setters of an unmounted component, so nothing is published.
LateAnimationFrame ==
    /\ ~mounted
    /\ frames # <<>>
    /\ frames' = Tail(frames)
    /\ timerArmed' = TRUE
    /\ quietLeft' = QuietMs
    /\ UNCHANGED <<config, container, visibleRange, currentPage, isScrolling,
                   listening, sample, sinceSample, scrolledTo, mounted>>

\* The timeout set after the unmount fires: setIsScrolling(false) is ignored.
LateQuietTimeout ==
    /\ ~mounted
    /\ timerArmed
    /\ timerArmed' = FALSE
    /\ UNCHANGED <<config, container, visibleRange, currentPage, isScrolling,
                   listening, frames, quietLeft, sample, sinceSample, scrolledTo,
                   mounted>>

----------------------------------------------------------------------------
(* PDFViewer and PDFPage: render requests.                                 *)
(*                                                                         *)
(* A request is one call of pdfService.renderPage(pageNumber, canvas,      *)
(* {scale, rotation}).  "viewer" requests come from PDFViewer.renderPage,  *)
(* each on a canvas of its own; "page" requests come from usePDFRenderer,  *)
(* all on the <canvas> element the PDFPage of that number shows.  React    *)
(* runs the effects of a commit before it renders the next update, so the  *)
(* effects an update triggers are part of the action of that update.       *)

\* What a canvas shows: the transform of the request that drew on it last.
NoRender == [scale |-> 0, rotation |-> 0]
Drawn(r) == [scale |-> r.scale, rotation |-> r.rotation]

\* usePDFStore's initialState: scale 1.5, rotation 0.
DefaultScale == 15
\* const PAGE_HEIGHT = 800; const DEFAULT_OVERSCAN = 2;
PAGE_HEIGHT == 800
DEFAULT_OVERSCAN == 2
\* The configuration PDFViewer passes to useVirtualScroll before a document is
\* open (the store's totalPages is 0), and its container, one page tall.
ViewerConfig ==
    [totalPages |-> 0, pageHeight |-> PAGE_HEIGHT, overscan |-> DEFAULT_OVERSCAN]
ViewerContainer == [scrollTop |-> 0, clientHeight |-> PAGE_HEIGHT]
ViewerScrollTops == {k * PAGE_HEIGHT : k \in 0 .. ViewerMaxScrollTop}
Scales == {10, 15}

ViewerPages == 0 .. ViewerTotalPages

\* isVisible = pageNumber >= visibleRange.start && pageNumber < visibleRange.end
IsVisible(pageNumber, range) == pageNumber >= range.start /\ pageNumber < range.end
\* The PDFPage components: pageNumber = index + 1 for index < totalPages.
PageComponents(cfg) == 1 .. cfg.totalPages

\* for (page = start; page < end; page++) if (!renderedPages.has(page)) renderPage(page)
Due(range, rendered) ==
    {pg \in range.start .. (range.end - 1) : rendered[pg] = NoRender}

\* The requests one pass issues for the pages of S.  Requests that agree on
\* everything are told apart only by how many there are.
Issue(kind, S, sc, rot) ==
    SetToBag({[kind |-> kind, page |-> pg, scale |-> sc, rotation |-> rot,
               pc |-> "getPage", attached |-> TRUE] : pg \in S})

Latest(lat, kind, S, sc, rot) ==
    [k \in {"viewer", "page"} |->
        [pg \in ViewerPages |->
            IF k = kind /\ pg \in S THEN [scale |-> sc, rotation |-> rot]
            ELSE lat[k][pg]]]

One(r) == SetToBag({r})

\* usePDFRenderer's effect on every PDFPage whose <canvas> is mounted, then
\* PDFViewer's effect: the requests of one commit after `sc` or `rot` changed.
\* Each viewer request begins with setIsLoading(true).
TransformEffects(sc, rot) ==
    LET P == {pg \in PageComponents(config) : IsVisible(pg, visibleRange)}
        V == Due(visibleRange, renderedPages)
    IN  /\ BagCardinality(renders) + Cardinality(P) + Cardinality(V) <= MaxRenders
        /\ renders' = renders (+) Issue("page", P, sc, rot) (+) Issue("viewer", V, sc, rot)
        /\ latest' = Latest(Latest(latest, "page", P, sc, rot), "viewer", V, sc, rot)
        /\ isLoading' = IF V = {} THEN isLoading ELSE TRUE
        /\ failed' = failed \ V

\* A <canvas> element is unmounted when its page stops being visible; requests
\* still painting it go on painting an element that is no longer shown.
Unmounted(range) == {pg \in ViewerPages : ~IsVisible(pg, range)}
Detached(r, range) ==
    IF r.kind = "page" /\ r.page \in Unmounted(range)
    THEN [r EXCEPT !.attached = FALSE] ELSE r
Detach(rs, range) ==
    LET shapes == {Detached(r, range) : r \in BagToSet(rs)}
        Count(t) == LET from == {r \in BagToSet(rs) : Detached(r, range) = t}
                    IN  IF from = {} THEN 0
                        ELSE IF Cardinality(from) = 1
                        THEN CopiesIn(CHOOSE r \in from : TRUE, rs)
                        ELSE CopiesIn([t EXCEPT !.attached = TRUE], rs) + CopiesIn(t, rs)
    IN  [t \in shapes |-> Count(t)]
Shown(range) ==
    [pg \in ViewerPages |-> IF pg \in Unmounted(range) THEN NoRender ELSE canvasShown[pg]]

\* PDFViewer's effect after setVisibleRange published `range` (a new object on
\* every sample, so the effect runs on every sample).
RangeEffects(range) ==
    LET V == Due(range, renderedPages)
    IN  /\ BagCardinality(renders) + Cardinality(V) <= MaxRenders
        /\ renders' = Detach(renders, range) (+) Issue("viewer", V, scale, rotation)
        /\ latest' = Latest(latest, "viewer", V, scale, rotation)
        /\ isLoading' = IF V = {} THEN isLoading ELSE TRUE
        /\ canvasShown' = Shown(range)
        /\ failed' = failed \ V
        /\ UNCHANGED <<scale, rotation, renderedPages>>

InitViewer ==
    /\ scale = DefaultScale
    /\ rotation = 0
    /\ isLoading = FALSE
    /\ renders = EmptyBag
    /\ latest = [k \in {"viewer", "page"} |-> [pg \in ViewerPages |-> NoRender]]
    /\ renderedPages = [pg \in ViewerPages |-> NoRender]
    /\ canvasShown = [pg \in ViewerPages |-> NoRender]
    /\ failed = {}

----------------------------------------------------------------------------
(* PDFViewer: mounting, a document arriving, scrolling, zooming.           *)

\* The first commit's effects.  The viewer mounts before any document is open
\* (totalPages 0), so no PDFPage exists and the initial range is empty: only
\* useVirtualScroll's effect has something to do, and PDFViewer's effect runs
\* again for the range it publishes.
ViewerMount ==
    /\ EffectRun
    /\ RangeEffects(visibleRange')
    /\ UNCHANGED <<cacheVars, poolVars, syncVars>>

\* useFileOpen: setDocument(metadata) sets totalPages; the PDFPage components
\* are created while the range of the previous configuration is still
\* published, then useVirtualScroll's effect publishes the new range.
DocumentOpened(n) ==
    /\ config.totalPages = 0
    /\ ConfigChanged([config EXCEPT !.totalPages = n])
    /\ RangeEffects(visibleRange')
    /\ UNCHANGED <<cacheVars, poolVars, syncVars>>

ViewerScrollEvent(top) ==
    /\ ScrollEvent(top)
    /\ UNCHANGED renderVars
    /\ UNCHANGED <<cacheVars, poolVars, syncVars>>

ViewerAnimationFrame ==
    /\ AnimationFrame
    /\ RangeEffects(visibleRange')
    /\ UNCHANGED <<cacheVars, poolVars, syncVars>>

\* setIsScrolling(false) re-renders the viewer; no dependency of its effect
\* changes.
ViewerQuietTimeout ==
    /\ QuietTimeout
    /\ UNCHANGED renderVars
    /\ UNCHANGED <<cacheVars, poolVars, syncVars>>

\* setScale(s) from the zoom controls.  (setRotation acts on the effects in the
\* same way through the same dependency lists; the rotation stays at 0 here.)
SetScale(sc) ==
    /\ listening
    /\ sc # scale
    /\ scale' = sc
    /\ TransformEffects(sc, rotation)
    /\ UNCHANGED <<rotation, renderedPages, canvasShown, scrollVars>>
    /\ UNCHANGED <<cacheVars, poolVars, syncVars>>

----------------------------------------------------------------------------
(* pdfService.renderPage, as awaited by its two callers.                   *)

\* `await this.getPage(pageNumber)` returned a page: the canvas takes the
\* viewport's width and height (which blanks it) and page.render starts.
RenderGotPage(r) ==
    /\ BagIn(r, renders) /\ r.pc = "getPage"
    /\ r.page \in PageComponents(config)
    /\ renders' = (renders (-) One(r)) (+) One([r EXCEPT !.pc = "render"])
    /\ canvasShown' =
           IF r.kind = "page" /\ r.attached
           THEN [canvasShown EXCEPT ![r.page] = Drawn(r)]
           ELSE canvasShown
    /\ UNCHANGED <<scale, rotation, isLoading, latest, renderedPages, failed,
                   scrollVars>>
    /\ UNCHANGED <<cacheVars, poolVars, syncVars>>

\* getPage threw (no document, page out of range) or page.render rejected:
\* pdfService.renderPage throws.  PDFViewer.renderPage logs it and runs
\* setIsLoading(false); usePDFRenderer logs it.
RenderFailed(r) ==
    /\ BagIn(r, renders)
    /\ renders' = renders (-) One(r)
    /\ isLoading' = IF r.kind = "viewer" THEN FALSE ELSE isLoading
    /\ failed' = IF r.kind = "viewer" THEN failed \cup {r.page} ELSE failed
    /\ UNCHANGED <<scale, rotation, latest, renderedPages, canvasShown, scrollVars>>
    /\ UNCHANGED <<cacheVars, poolVars, syncVars>>

\* page.render resolved for a usePDFRenderer request: the pixels are on the
\* PDFPage's canvas.  Nothing compares the request with a newer one.
PagePainted(r) ==
    /\ BagIn(r, renders) /\ r.pc = "render" /\ r.kind = "page"
    /\ renders' = renders (-) One(r)
    /\ canvasShown' =
           IF r.attached THEN [canvasShown EXCEPT ![r.page] = Drawn(r)]
           ELSE canvasShown
    /\ UNCHANGED <<scale, rotation, isLoading, latest, renderedPages, failed,
                   scrollVars>>
    /\ UNCHANGED <<cacheVars, poolVars, syncVars>>

\* page.render resolved for a PDFViewer.renderPage request:
\* setRenderedPages(prev => new Map(prev).set(pageNumber, canvas)), then
\* setIsLoading(false); renderedPages changed, so PDFViewer's effect runs.
ViewerPainted(r) ==
    LET rendered == [renderedPages EXCEPT ![r.page] = Drawn(r)]
        V == Due(visibleRange, rendered)
    IN  /\ BagIn(r, renders) /\ r.pc = "render" /\ r.kind = "viewer"
        /\ BagCardinality(renders) - 1 + Cardinality(V) <= MaxRenders
        /\ renderedPages' = rendered
        /\ renders' = (renders (-) One(r)) (+) Issue("viewer", V, scale, rotation)
        /\ latest' = Latest(latest, "viewer", V, scale, rotation)
        /\ isLoading' = (V # {})
        /\ failed' = (failed \ V) \ {r.page}
        /\ UNCHANGED <<scale, rotation, canvasShown, scrollVars>>
        /\ UNCHANGED <<cacheVars, poolVars, syncVars>>

----------------------------------------------------------------------------
(* CanvasPool.  A canvas is known by the number of the createElement call   *)
(* that made it; `painted` says that its bitmap holds pixels drawn since it *)
(* was last cleared.  Sizes are whole numbers; 0 stands for an argument     *)
(* left out as well as for 0, both falsy in `if (width && height)`.         *)

\* constructor(maxSize: number = 20)
DefaultPoolMaxSize == 20
\* An HTML canvas element is created 300 wide and 150 high.
DefaultCanvasWidth == 300
DefaultCanvasHeight == 150

Canvases == 1 .. MaxCanvases
Dims == 0 .. MaxDim
NoCanvas == [width |-> 0, height |-> 0, painted |-> FALSE]
\* document.createElement('canvas')
NewCanvas == [width |-> DefaultCanvasWidth, height |-> DefaultCanvasHeight,
              painted |-> FALSE]
\* if (width && height) { canvas.width = width; canvas.height = height }
\* Assigning a canvas's width or height clears its bitmap.
Resized(cv, width, height) ==
    IF width # 0 /\ height # 0
    THEN [width |-> width, height |-> height, painted |-> FALSE]
    ELSE cv
\* ctx.clearRect(0, 0, width, height) if a 2d context exists, then
\* canvas.width = 0; canvas.height = 0
Cleared(cv) == [width |-> 0, height |-> 0, painted |-> FALSE]

NoPoolCall == [kind |-> "none", canvas |-> 0, held |-> FALSE, dirty |-> FALSE]

\* The first occurrence of `c` from the end of `order` removed.
WithoutLast(order, c) ==
    LET at == {i \in 1 .. Len(order) : order[i] = c}
        last == CHOOSE i \in at : \A j \in at : j <= i
    IN  IF at = {} THEN order
        ELSE SubSeq(order, 1, last - 1) \o SubSeq(order, last + 1, Len(order))
Count(q, c) == Cardinality({i \in 1 .. Len(q) : q[i] = c})
RECURSIVE DropN(_, _, _)
DropN(order, c, k) ==
    IF k = 0 THEN order ELSE DropN(WithoutLast(order, c), c, k - 1)
RECURSIVE DropLeft(_, _, _, _)
DropLeft(order, before, after, c) ==
    IF c = 0 THEN order
    ELSE DropLeft(DropN(order, c, Max(0, Count(before, c) - Count(after, c))),
                  before, after, c - 1)
\* Observation of one pool call, from the pool `before` it and the pool
\* `after` it: every canvas that left the pool is dropped from the record
\* (its latest entry), the canvas that entered is added at the end.
Pooled(order, before, after) ==
    LET entered == {c \in Canvases : Count(after, c) > Count(before, c)}
        kept == DropLeft(order, before, after, MaxCanvases)
    IN  IF entered = {} THEN kept ELSE Append(kept, CHOOSE c \in entered : TRUE)

InitPool(maxSize) ==
    /\ pool = <<>>
    /\ poolMaxSize = maxSize
    /\ canvases = [c \in Canvases |-> NoCanvas]
    /\ nextCanvas = 0
    /\ held = {}
    /\ pooledOrder = <<>>
    /\ lastPool = NoPoolCall
    /\ resizing = FALSE

----------------------------------------------------------------------------
(* CanvasPool: acquire, release, clear, setMaxSize, and what the code that  *)
(* holds a canvas does with it.                                            *)

AcquireFifo(width, height) ==
    LET hit == pool # <<>>
        c == IF hit THEN Head(pool) ELSE nextCanvas + 1
        after == IF hit THEN Tail(pool) ELSE pool
    IN  /\ hit \/ nextCanvas < MaxCanvases
        /\ pool' = after
        /\ nextCanvas' = IF hit THEN nextCanvas ELSE nextCanvas + 1
        /\ canvases' = [canvases EXCEPT
               ![c] = Resized(IF hit THEN canvases[c] ELSE NewCanvas, width, height)]
        /\ held' = held \cup {c}
        /\ pooledOrder' = Pooled(pooledOrder, pool, after)
        /\ lastPool' = [kind |-> IF hit THEN "hit" ELSE "miss", canvas |-> c,
                        held |-> c \in held, dirty |-> canvases[c].painted]
        /\ UNCHANGED poolMaxSize
        /\ UNCHANGED <<cacheVars, scrollVars, renderVars, syncVars, resizing>>
\* acquire(width?, height?): this.pool.pop(); a popped canvas takes the size
\* asked for and is returned, otherwise a new canvas is created, sized and
\* returned.  The call is synchronous.
Acquire(width, height) ==
    LET hit == pool # <<>>
        c == IF hit THEN pool[Len(pool)] ELSE nextCanvas + 1
        after == IF hit THEN SubSeq(pool, 1, Len(pool) - 1) ELSE pool
    IN  /\ hit \/ nextCanvas < MaxCanvases
        /\ pool' = after
        /\ nextCanvas' = IF hit THEN nextCanvas ELSE nextCanvas + 1
        /\ canvases' = [canvases EXCEPT
               ![c] = Resized(IF hit THEN canvases[c] ELSE NewCanvas, width, height)]
        /\ held' = held \cup {c}
        /\ pooledOrder' = Pooled(pooledOrder, pool, after)
        /\ lastPool' = [kind |-> IF hit THEN "hit" ELSE "miss", canvas |-> c,
                        held |-> c \in held, dirty |-> canvases[c].painted]
        /\ UNCHANGED poolMaxSize
        /\ UNCHANGED <<cacheVars, scrollVars, renderVars, syncVars, resizing>>

\* The code holding a canvas draws on it.
Paint(c) ==
    /\ c \in held
    /\ ~canvases[c].painted
    /\ canvases[c].width # 0 /\ canvases[c].height # 0
    /\ canvases' = [canvases EXCEPT ![c].painted = TRUE]
    /\ lastPool' = [kind |-> "paint", canvas |-> c, held |-> TRUE, dirty |-> FALSE]
    /\ UNCHANGED <<pool, poolMaxSize, nextCanvas, held, pooledOrder>>
    /\ UNCHANGED <<cacheVars, scrollVars, renderVars, syncVars, resizing>>

ReleaseUnbounded(c) ==
    LET after == Append(pool, c)
    IN  /\ c \in 1 .. nextCanvas
        /\ held' = held \ {c}
        /\ pool' = after
        /\ canvases' = [canvases EXCEPT ![c] = Cleared(canvases[c])]
        /\ pooledOrder' = Pooled(pooledOrder, pool, after)
        /\ lastPool' = [kind |-> "pooled", canvas |-> c, held |-> c \in held,
                        dirty |-> canvases[c].painted]
        /\ UNCHANGED <<poolMaxSize, nextCanvas>>
        /\ UNCHANGED <<cacheVars, scrollVars, renderVars, syncVars, resizing>>
ReleaseAsIs(c) ==
    LET full == Len(pool) >= poolMaxSize
        after == IF full THEN pool ELSE Append(pool, c)
    IN  /\ c \in 1 .. nextCanvas
        /\ held' = held \ {c}
        /\ pool' = after
        /\ canvases' = canvases
        /\ pooledOrder' = Pooled(pooledOrder, pool, after)
        /\ lastPool' = [kind |-> IF full THEN "dropped" ELSE "pooled", canvas |-> c,
                        held |-> c \in held, dirty |-> canvases[c].painted]
        /\ UNCHANGED <<poolMaxSize, nextCanvas>>
        /\ UNCHANGED <<cacheVars, scrollVars, renderVars, syncVars, resizing>>
\* release(canvas): if the pool is full return (the canvas is dropped as it
\* is); else clear it, zero its size and push it.  Nothing checks whether the
\* canvas is already in the pool.
Release(c) ==
    LET full == Len(pool) >= poolMaxSize
        after == IF full THEN pool ELSE Append(pool, c)
    IN  /\ c \in 1 .. nextCanvas
        /\ held' = held \ {c}
        /\ pool' = after
        /\ canvases' = IF full THEN canvases
                       ELSE [canvases EXCEPT ![c] = Cleared(canvases[c])]
        /\ pooledOrder' = Pooled(pooledOrder, pool, after)
        /\ lastPool' = [kind |-> IF full THEN "dropped" ELSE "pooled", canvas |-> c,
                        held |-> c \in held, dirty |-> canvases[c].painted]
        /\ UNCHANGED <<poolMaxSize, nextCanvas>>
        /\ UNCHANGED <<cacheVars, scrollVars, renderVars, syncVars, resizing>>

\* release by the code that holds the canvas, which then lets go of it.
ReleaseHeld(c) == c \in held /\ Release(c)
\* release of a canvas nobody holds: one released before (a second release by
\* a completion and a cancellation, say).
ReleaseAgain(c) == c \notin held /\ Release(c)

\* clear(): this.pool = []
ClearPool ==
    /\ pool' = <<>>
    /\ pooledOrder' = Pooled(pooledOrder, pool, <<>>)
    /\ lastPool' = [kind |-> "clear", canvas |-> 0, held |-> FALSE, dirty |-> FALSE]
    /\ UNCHANGED <<poolMaxSize, canvases, nextCanvas, held>>
    /\ UNCHANGED <<cacheVars, scrollVars, renderVars, syncVars, resizing>>

\* setMaxSize(maxSize), for maxSize >= 0: this.maxSize = maxSize;
\* while (this.pool.length > maxSize) this.pool.pop()
SetMaxSize(maxSize) ==
    LET after == SubSeq(pool, 1, Min(Len(pool), maxSize))
    IN  /\ poolMaxSize' = maxSize
        /\ pool' = after
        /\ pooledOrder' = Pooled(pooledOrder, pool, after)
        /\ lastPool' = [kind |-> "setMaxSize", canvas |-> 0, held |-> FALSE, dirty |-> FALSE]
        /\ UNCHANGED <<canvases, nextCanvas, held>>
        /\ UNCHANGED <<cacheVars, scrollVars, renderVars, syncVars, resizing>>

\* setMaxSize statement by statement.  The call: this.maxSize = maxSize, for
\* any integer.
SetMaxSizeCall(maxSize) ==
    /\ ~resizing
    /\ resizing' = TRUE
    /\ poolMaxSize' = maxSize
    /\ UNCHANGED <<pool, pooledOrder, lastPool, canvases, nextCanvas, held>>
    /\ UNCHANGED <<cacheVars, scrollVars, renderVars, syncVars>>

\* One turn of `while (this.pool.length > maxSize) this.pool.pop()`; pop() of
\* an empty array removes nothing.
SetMaxSizePop ==
    LET after == SubSeq(pool, 1, Len(pool) - 1)
    IN  /\ resizing
        /\ Len(pool) > poolMaxSize
        /\ pool' = after
        /\ pooledOrder' = Pooled(pooledOrder, pool, after)
        /\ UNCHANGED <<poolMaxSize, lastPool, canvases, nextCanvas, held, resizing>>
        /\ UNCHANGED <<cacheVars, scrollVars, renderVars, syncVars>>

\* The loop's condition is false: the call returns.
SetMaxSizeReturn ==
    /\ resizing
    /\ ~(Len(pool) > poolMaxSize)
    /\ resizing' = FALSE
    /\ lastPool' = [kind |-> "setMaxSize", canvas |-> 0, held |-> FALSE, dirty |-> FALSE]
    /\ UNCHANGED <<pool, pooledOrder, poolMaxSize, canvases, nextCanvas, held>>
    /\ UNCHANGED <<cacheVars, scrollVars, renderVars, syncVars>>

----------------------------------------------------------------------------
(* CloudSyncService.  An item of the local cache is known by its id and by *)
(* the reading of the clock at the saveLocal that stored it (its           *)
(* updatedAt); its data is whatever was saved then.                        *)

SyncIds == 1 .. MaxSyncIds

\* Map.prototype.has / set on this.localCache, keyed by id.
SyncHas(c, id) == \E i \in 1 .. Len(c) : c[i].id = id
SyncSet(c, e) ==
    IF SyncHas(c, e.id)
    THEN [i \in 1 .. Len(c) |-> IF c[i].id = e.id THEN e ELSE c[i]]
    ELSE Append(c, e)
\* Array.from(this.localCache.values()).filter((d) => !d.synced)
Unsynced(c) == SelectSeq(c, LAMBDA e : ~e.synced)

\* The static fields as declared; the default config has no credentials.
InitSync ==
    /\ localCache = <<>>
    /\ syncing = FALSE
    /\ syncPending = 0
    /\ syncError = "null"
    /\ credentials = FALSE
    /\ uploads = <<>>
    /\ syncPc = "idle"
    /\ clock = 0
    /\ lastSync = 0
    /\ savedVersion = [id \in SyncIds |-> 0]
    /\ uploadedVersion = [id \in SyncIds |-> 0]

\* configure({ apiKey, apiUrl })
Configure ==
    /\ ~credentials
    /\ credentials' = TRUE
    /\ UNCHANGED <<localCache, syncing, syncPending, syncError, uploads, syncPc,
                   clock, lastSync, savedVersion, uploadedVersion>>
    /\ UNCHANGED <<cacheVars, scrollVars, renderVars, poolVars>>

\* sync() up to its first await, the cache being `c`: return if a sync is
\* running; set the error if credentials are missing; else take the unsynced
\* entries and await the upload of the first, or the download if there is none.
SyncBegin(c) ==
    IF syncing
    THEN UNCHANGED <<syncing, syncError, uploads, syncPc>>
    ELSE IF ~credentials
    THEN /\ syncError' = "API credentials not configured"
         /\ UNCHANGED <<syncing, uploads, syncPc>>
    ELSE /\ syncing' = TRUE
         /\ syncError' = "null"
         /\ uploads' = Unsynced(c)
         /\ syncPc' = IF Unsynced(c) = <<>> THEN "download" ELSE "upload"

\* saveLocal(data): set the entry with synced false and updatedAt now, count
\* the unsynced entries, and (autoSync being on) call sync().
SaveLocal(id) ==
    LET c == SyncSet(localCache, [id |-> id, version |-> clock + 1, synced |-> FALSE])
    IN  /\ clock < MaxSaves
        /\ clock' = clock + 1
        /\ localCache' = c
        /\ syncPending' = Len(Unsynced(c))
        /\ savedVersion' = [savedVersion EXCEPT ![id] = clock + 1]
        /\ SyncBegin(c)
        /\ UNCHANGED <<credentials, lastSync, uploadedVersion>>
        /\ UNCHANGED <<cacheVars, scrollVars, renderVars, poolVars>>

\* sync() called by the auto-sync interval or by the application.
Sync ==
    /\ SyncBegin(localCache)
    /\ UNCHANGED <<localCache, syncPending, credentials, clock, lastSync,
                   savedVersion, uploadedVersion>>
    /\ UNCHANGED <<cacheVars, scrollVars, renderVars, poolVars>>

\* `await this.uploadToCloud(data)` returned:
\* this.localCache.set(data.id, { ...data, synced: true }) with the `data` of
\* the snapshot, then the next entry of `pending`, or the download.
UploadDone ==
    LET data == Head(uploads)
    IN  /\ syncPc = "upload"
        /\ localCache' = SyncSet(localCache, [data EXCEPT !.synced = TRUE])
        /\ uploadedVersion' = [uploadedVersion EXCEPT ![data.id] = data.version]
        /\ uploads' = Tail(uploads)
        /\ syncPc' = IF Tail(uploads) = <<>> THEN "download" ELSE "upload"
        /\ UNCHANGED <<syncing, syncPending, syncError, credentials, clock,
                       lastSync, savedVersion>>
        /\ UNCHANGED <<cacheVars, scrollVars, renderVars, poolVars>>

\* `await this.downloadFromCloud()` returned [] (the placeholder): nothing to
\* merge; lastSync = now, pending = 0, and in `finally` syncing = false.
DownloadDone ==
    /\ syncPc = "download"
    /\ lastSync' = clock + 1
    /\ syncPending' = 0
    /\ syncing' = FALSE
    /\ syncPc' = "idle"
    /\ UNCHANGED <<localCache, syncError, credentials, uploads, clock,
                   savedVersion, uploadedVersion>>
    /\ UNCHANGED <<cacheVars, scrollVars, renderVars, poolVars>>

----------------------------------------------------------------------------
(* Specifications.                                                         *)

\* The page cache of one PDFService, the rest of the application idle.
InitCache ==
    /\ InitService(CacheCapacity)
    /\ InitScroll({ViewerConfig}, {NoContainer})
    /\ InitViewer
    /\ InitPool(DefaultPoolMaxSize)
    /\ InitSync

NextCache ==
    \/ LoadDocument
    \/ \E d \in loads : LoadOpened(d)
    \/ \E d \in loads : LoadRejected(d)
    \/ \E p \in Pages : GetPageNotLoaded(p)
    \/ \E p \in Pages : GetPageHit(p)
    \/ \E p \in Pages : GetPageMiss(p)
    \/ \E c \in calls : GetPageResolved(c)
    \/ \E c \in calls : GetPageRejected(c)
    \/ Cleanup

SpecCache == InitCache /\ [][NextCache]_vars

\* The service as constructed, the rest of the application idle.
InitDefault ==
    /\ InitService(DefaultMaxCacheSize)
    /\ InitScroll({ViewerConfig}, {NoContainer})
    /\ InitViewer
    /\ InitPool(DefaultPoolMaxSize)
    /\ InitSync

\* The capacity setter of one PDFService, with documents opened and closed.
NextCapacity ==
    \/ \E n \in 0 .. MaxCapacityArg : SetMaxCacheSize(n)
    \/ LoadDocument
    \/ \E d \in loads : LoadOpened(d)
    \/ \E d \in loads : LoadRejected(d)
    \/ \E p \in Pages : GetPageNotLoaded(p)
    \/ Cleanup

SpecCapacity == InitDefault /\ [][NextCapacity]_vars

\* useVirtualScroll under every configuration and container of the bounds.
Containers ==
    {NoContainer} \cup [scrollTop : {0}, clientHeight : 0 .. MaxClientHeight]

InitHook ==
    /\ InitService(DefaultMaxCacheSize)
    /\ InitScroll(Configs, Containers)
    /\ InitViewer
    /\ InitPool(DefaultPoolMaxSize)
    /\ InitSync

HookEffectRun == EffectRun /\ UNCHANGED <<cacheVars, renderVars, poolVars, syncVars>>
HookScrollEvent(top) == ScrollEvent(top) /\ UNCHANGED <<cacheVars, renderVars, poolVars, syncVars>>
HookResize(height) == Resize(height) /\ UNCHANGED <<cacheVars, renderVars, poolVars, syncVars>>
HookAnimationFrame == AnimationFrame /\ UNCHANGED <<cacheVars, renderVars, poolVars, syncVars>>
HookQuietTimeout == QuietTimeout /\ UNCHANGED <<cacheVars, renderVars, poolVars, syncVars>>

NextHook ==
    \/ HookEffectRun
    \/ \E top \in 0 .. MaxScrollTop : HookScrollEvent(top)
    \/ \E height \in 0 .. MaxClientHeight : HookResize(height)
    \/ HookAnimationFrame
    \/ HookQuietTimeout

SpecScroll == InitHook /\ [][NextHook]_vars

\* PDFViewer with its PDFPage children.
InitRender ==
    /\ InitService(DefaultMaxCacheSize)
    /\ InitScroll({ViewerConfig}, {ViewerContainer})
    /\ InitViewer
    /\ InitPool(DefaultPoolMaxSize)
    /\ InitSync

NextRender ==
    \/ ViewerMount
    \/ DocumentOpened(ViewerTotalPages)
    \/ \E top \in ViewerScrollTops : ViewerScrollEvent(top)
    \/ ViewerAnimationFrame
    \/ ViewerQuietTimeout
    \/ \E sc \in Scales : SetScale(sc)
    \/ \E r \in BagToSet(renders) : RenderGotPage(r)
    \/ \E r \in BagToSet(renders) : RenderFailed(r)
    \/ \E r \in BagToSet(renders) : PagePainted(r)
    \/ \E r \in BagToSet(renders) : ViewerPainted(r)

SpecRender == InitRender /\ [][NextRender]_vars

\* useVirtualScroll as the tests render it for a long document: 100 pages of
\* PAGE_HEIGHT, overscan DEFAULT_OVERSCAN, a viewport one page tall, scrolled
\* in steps of half a page.
ScenarioTotalPages == 100
ScenarioConfig ==
    [totalPages |-> ScenarioTotalPages, pageHeight |-> PAGE_HEIGHT,
     overscan |-> DEFAULT_OVERSCAN]
ScenarioTops == {k * (PAGE_HEIGHT \div 2) : k \in 0 .. MaxScenarioSteps}

InitScenario ==
    /\ InitService(DefaultMaxCacheSize)
    /\ InitScroll({ScenarioConfig}, {ViewerContainer})
    /\ InitViewer
    /\ InitPool(DefaultPoolMaxSize)
    /\ InitSync

NextScenario ==
    \/ HookEffectRun
    \/ \E top \in ScenarioTops : HookScrollEvent(top)
    \/ HookAnimationFrame
    \/ HookQuietTimeout

SpecScenario == InitScenario /\ [][NextScenario]_vars

\* One CanvasPool constructed with PoolCapacity, used by code that releases
\* only canvases it holds.
InitPoolUse ==
    /\ InitService(DefaultMaxCacheSize)
    /\ InitScroll({ViewerConfig}, {NoContainer})
    /\ InitViewer
    /\ InitPool(PoolCapacity)
    /\ InitSync

NextPool ==
    \/ \E w, h \in Dims : Acquire(w, h)
    \/ \E c \in Canvases : Paint(c)
    \/ \E c \in Canvases : ReleaseHeld(c)
    \/ ClearPool
    \/ \E n \in 0 .. MaxPoolArg : SetMaxSize(n)

SpecPool == InitPoolUse /\ [][NextPool]_vars

\* The same pool under every sequence of calls, a canvas released more than
\* once included.
NextPoolCalls ==
    \/ \E w, h \in Dims : Acquire(w, h)
    \/ \E c \in Canvases : Paint(c)
    \/ \E c \in Canvases : ReleaseHeld(c)
    \/ \E c \in Canvases : ReleaseAgain(c)
    \/ ClearPool
    \/ \E n \in 0 .. MaxPoolArg : SetMaxSize(n)

SpecPoolCalls == InitPoolUse /\ [][NextPoolCalls]_vars

\* useVirtualScroll in a component that unmounts, for the long document of
\* the scenario.
HookUnmount == Unmount /\ UNCHANGED <<cacheVars, renderVars, poolVars, syncVars>>
HookLateAnimationFrame ==
    LateAnimationFrame /\ UNCHANGED <<cacheVars, renderVars, poolVars, syncVars>>
HookLateQuietTimeout ==
    LateQuietTimeout /\ UNCHANGED <<cacheVars, renderVars, poolVars, syncVars>>

NextUnmount ==
    \/ HookEffectRun
    \/ \E top \in ScenarioTops : HookScrollEvent(top)
    \/ HookAnimationFrame
    \/ HookQuietTimeout
    \/ HookUnmount
    \/ HookLateAnimationFrame
    \/ HookLateQuietTimeout

SpecUnmount == InitScenario /\ [][NextUnmount]_vars

\* CloudSyncService, the rest of the application idle.
NextSync ==
    \/ Configure
    \/ \E id \in SyncIds : SaveLocal(id)
    \/ Sync
    \/ UploadDone
    \/ DownloadDone

SpecSync == InitDefault /\ [][NextSync]_vars

\* The pool with setMaxSize followed statement by statement and given any
\* integer of PoolArgs; no other call runs while one is under way, and
\* a call under way goes on to its next statement.
PoolArgs == (0 - MaxNegPoolArg) .. MaxPoolArg

NextPoolResize ==
    \/ \E w, h \in Dims : ~resizing /\ Acquire(w, h)
    \/ \E c \in Canvases : ~resizing /\ Paint(c)
    \/ \E c \in Canvases : ~resizing /\ ReleaseHeld(c)
    \/ ~resizing /\ ClearPool
    \/ \E n \in PoolArgs : SetMaxSizeCall(n)
    \/ SetMaxSizePop
    \/ SetMaxSizeReturn

SpecPoolResize ==
    /\ InitPoolUse
    /\ [][NextPoolResize]_vars
    /\ WF_vars(SetMaxSizePop)
    /\ WF_vars(SetMaxSizeReturn)

\* useVirtualScroll with the passage of time: the long document of the
\* scenario, scrolled while the clock runs.  Effects, animation frames and due
\* timeouts are run by the browser, and time passes.
HookTick == Tick /\ UNCHANGED <<cacheVars, renderVars, poolVars, syncVars>>
HookQuietElapsed == QuietElapsed /\ UNCHANGED <<cacheVars, renderVars, poolVars, syncVars>>

NextTimed ==
    \/ HookEffectRun
    \/ \E top \in ScenarioTops : HookScrollEvent(top)
    \/ HookAnimationFrame
    \/ HookTick
    \/ HookQuietElapsed

SpecTimed ==
    /\ InitScenario
    /\ [][NextTimed]_vars
    /\ WF_vars(HookEffectRun)
    /\ WF_vars(HookAnimationFrame)
    /\ WF_vars(HookTick)
    /\ WF_vars(HookQuietElapsed)

\* useVirtualScroll with its scrollToPage callback in use.
PageArgs == 0 .. (MaxTotalPages + 1)
HookScrollToPage(n) == ScrollToPage(n) /\ UNCHANGED <<cacheVars, renderVars, poolVars, syncVars>>

NextScrollTo ==
    \/ HookEffectRun
    \/ \E top \in 0 .. MaxScrollTop : HookScrollEvent(top)
    \/ \E n \in PageArgs : HookScrollToPage(n)
    \/ HookAnimationFrame
    \/ HookQuietTimeout

SpecScrollTo == InitHook /\ [][NextScrollTo]_vars

Spec == SpecCache

----------------------------------------------------------------------------
(* Claims about the page cache (SpecCache, SpecCapacity).                  *)

\* C1: after every getPage call, whatever the overlap of the fetches, the
\* page cache holds at most maxCacheSize entries.
CacheWithinCapacity == Len(pageCache) <= maxCacheSize

\* A full cache right after a miss evicted an entry, with another fetch still
\* in flight.
CacheFullAfterEviction ==
    /\ lastCall.kind = "miss"
    /\ lastCall.evicted # 0
    /\ Len(pageCache) = maxCacheSize
    /\ calls # {}

\* C3 (as claimed): every cache entry was obtained from the document that is
\* active now, so getPage never returns a handle of a replaced document.
CacheOfActiveDocument ==
    document # NoDoc =>
        \A i \in 1 .. Len(pageCache) : pageCache[i].handle.doc = document

CacheIdentity ==
    [][\A p \in Pages :
           (GetPage(p) /\ document # NoDoc /\ returned[p] # NoHandle) =>
               /\ lastCall'.kind = "hit"
               /\ lastCall'.handle = returned[p]
               /\ calls' = calls
               /\ nextCall' = nextCall]_vars

\* A hit that returned the handle a miss on the open document had fetched.
HitReturnedFetchedHandle ==
    /\ lastCall.kind = "hit"
    /\ lastCall.handle.doc = document
    /\ lastCall.handle = returned[lastCall.handle.page]
    /\ MapValue(pageCache, lastCall.handle.page) = lastCall.handle

\* C6: with no document active, getPage fails with 'Document not loaded', asks
\* the renderer for nothing and leaves the cache as it is.
NotLoadedFails ==
    [][\A p \in Pages :
           (GetPage(p) /\ document = NoDoc) =>
               /\ lastCall'.kind = "not loaded"
               /\ calls' = calls
               /\ nextCall' = nextCall
               /\ pageCache' = pageCache]_vars

\* getPage failed after cleanup while the cache held an entry (stored by a call
\* that was suspended across the cleanup).
NotLoadedWithEntries ==
    /\ lastCall.kind = "not loaded"
    /\ document = NoDoc
    /\ nextDoc > 0
    /\ pageCache # <<>>

\* C7: after setMaxCacheSize(n), getCacheStats().maxSize is n clamped to
\* [5, 50]: 5 below the interval, 50 above it, n inside it.
CapacityClamped ==
    lastCall.kind = "setMaxCacheSize" =>
        /\ lastCall.arg < 5 => StatsMaxSize = 5
        /\ lastCall.arg > 50 => StatsMaxSize = 50
        /\ (lastCall.arg >= 5 /\ lastCall.arg <= 50) => StatsMaxSize = lastCall.arg

\* setMaxCacheSize(2) was the last call made.
CapacitySetBelowInterval ==
    /\ lastCall.kind = "setMaxCacheSize"
    /\ lastCall.arg = 2
    /\ StatsMaxSize = 5

\* C22: cleanup() leaves the cache empty and no document active; from then on
\* every getPage call fails with 'Document not loaded' and asks the renderer
\* for nothing, and only a loadDocument that the renderer resolves makes a
\* document active again.
CleanupClosesService ==
    [][/\ Cleanup => (pageCache' = <<>> /\ document' = NoDoc)
       /\ (document = NoDoc /\ document' # NoDoc) => \E d \in loads : LoadOpened(d)
       /\ \A p \in Pages :
              (GetPage(p) /\ document = NoDoc) =>
                  /\ lastCall'.kind = "not loaded"
                  /\ calls' = calls
                  /\ nextCall' = nextCall]_vars

\* A document had been open and pages fetched from it; after cleanup a getPage
\* was refused, the cache being empty.
RefusedAfterCleanup ==
    /\ lastCall.kind = "not loaded"
    /\ document = NoDoc
    /\ pageCache = <<>>
    /\ nextCall > 0
    /\ calls = {}

\* C26 (as claimed): whenever no document is active the page cache is empty,
\* whatever getPage calls were suspended when cleanup ran.
NoDocumentNoEntries == document = NoDoc => pageCache = <<>>

\* C27 (as claimed): a getPage that resumes removes an entry only if the page
\* it asked for is absent and the cache is full at that moment, and it never
\* leaves the cache with fewer entries than it found.
EvictsOnlyForAbsentPage ==
    [][\A c \in calls :
           GetPageResolved(c) =>
               /\ lastCall'.evicted # 0 =>
                      (~MapHas(pageCache, c.page) /\ Len(pageCache) >= maxCacheSize)
               /\ Len(pageCache') >= Len(pageCache)]_vars

\* C21 (as claimed): the entry a miss evicts is the least recently used one:
\* of the cached pages, the one a getPage returned longest ago.
EvictsLeastRecentlyUsed ==
    [][\A c \in calls :
           (GetPageResolved(c) /\ lastCall'.evicted # 0) =>
               lastCall'.evicted = Head(accessed)]_vars

----------------------------------------------------------------------------
(* Claims about the visible range and the current page (SpecScroll).       *)

\* The calculator of the design document, stated without division: floor(a/b)
\* is the n with n*b <= a < (n+1)*b, ceil(a/b) the n with (n-1)*b < a <= n*b.
RefFloor(a, b) == CHOOSE n \in -1 .. a : n * b <= a /\ a < (n + 1) * b
RefCeil(a, b) == CHOOSE n \in 0 .. (a + 1) : (n - 1) * b < a /\ a <= n * b
RefClamp(x, lo, hi) == IF x < lo THEN lo ELSE IF x > hi THEN hi ELSE x

RefStart(scrollOffset, pageExtent, overscan) ==
    LET n == RefFloor(scrollOffset, pageExtent) - overscan
    IN  IF n < 0 THEN 0 ELSE n
RefEnd(scrollOffset, viewportExtent, pageExtent, overscan, totalPages) ==
    LET n == RefCeil(scrollOffset + viewportExtent, pageExtent) + overscan
    IN  IF n > totalPages THEN totalPages ELSE n
\* ceil((scrollOffset + viewportExtent/2) / pageExtent), clamped to
\* [1, totalPages]; 1 for the empty document.
RefCurrentPage(scrollOffset, viewportExtent, pageExtent, totalPages) ==
    IF totalPages = 0 THEN 1
    ELSE RefClamp(RefCeil(2 * scrollOffset + viewportExtent, 2 * pageExtent),
                  1, totalPages)

Sampled == sample # NoSample

\* n clamped to [1, totalPages]; 1 for the empty document.
RefCurrentPageArg(n, totalPages) ==
    IF totalPages = 0 THEN 1 ELSE RefClamp(n, 1, totalPages)

\* C8 (as claimed): in the initial state and after every scroll sample,
\* 0 <= start <= end <= totalPages.
RangeWithinDocument ==
    /\ 0 <= visibleRange.start
    /\ visibleRange.start <= visibleRange.end
    /\ visibleRange.end <= config.totalPages

\* C9 (as claimed): for a non-empty document, end - start >= 2 * overscan in
\* the initial state and after every scroll sample.
RangeCoversOverscan ==
    config.totalPages >= 1 =>
        visibleRange.end - visibleRange.start >= 2 * Overscan(config)

\* A sample whose range is clamped at neither end of the document.
Unclamped ==
    /\ Sampled
    /\ RefFloor(sample.scrollTop, config.pageHeight) >= Overscan(config)
    /\ RefCeil(sample.scrollTop + sample.viewportHeight, config.pageHeight)
           + Overscan(config) <= config.totalPages

\* C9 (amended): for a non-empty document, end - start is
\* min(2 * overscan, totalPages) in the initial state, and at least
\* 2 * overscan after a scroll sample whose range is clamped at neither end.
RangeCoversOverscanUnlessClamped ==
    config.totalPages >= 1 =>
        /\ ~Sampled =>
               visibleRange.end - visibleRange.start
                   = Min(2 * Overscan(config), config.totalPages)
        /\ Unclamped =>
               visibleRange.end - visibleRange.start >= 2 * Overscan(config)

\* An unclamped sample of a non-empty document with a positive overscan.
UnclampedSample ==
    /\ Unclamped
    /\ config.totalPages >= 1
    /\ Overscan(config) >= 1
    /\ visibleRange.start >= 1

\* C10: after a scroll sample the published start, end and current page are
\* those of the reference calculator on the inputs the sample read, and the
\* current page lies in [1, totalPages] for a non-empty document.
PublishedMatchesCalculator ==
    Sampled =>
        LET cfg == sample.config
        IN  /\ visibleRange.start =
                   RefStart(sample.scrollTop, cfg.pageHeight, Overscan(cfg))
            /\ visibleRange.end =
                   RefEnd(sample.scrollTop, sample.viewportHeight, cfg.pageHeight,
                          Overscan(cfg), cfg.totalPages)
            /\ currentPage =
                   RefCurrentPage(sample.scrollTop, sample.viewportHeight,
                                  cfg.pageHeight, cfg.totalPages)
            /\ cfg.totalPages >= 1 =>
                   (1 <= currentPage /\ currentPage <= cfg.totalPages)

\* A sample taken after scrolling, whose viewport centre lies on a page
\* boundary's far side: the current page is past the first and not the last.
SampleInsideDocument ==
    /\ Sampled
    /\ sample.scrollTop > 0
    /\ sample.viewportHeight > 0
    /\ currentPage > 1
    /\ currentPage < config.totalPages
    /\ visibleRange.start > 0
    /\ visibleRange.end < config.totalPages

\* The scenario's sample: offset 4000, viewport height 800.
ScenarioSample ==
    /\ Sampled
    /\ sample.config = ScenarioConfig
    /\ sample.scrollTop = 5 * PAGE_HEIGHT
    /\ sample.viewportHeight = PAGE_HEIGHT

\* C11 (as claimed): for a 100-page document, page height 800, overscan 2 and
\* viewport height 800, a sample at offset 4000 yields visibleRange {3, 9} and
\* currentPage 6.
ScenarioRangeThreeToNine ==
    ScenarioSample =>
        /\ visibleRange = [start |-> 3, end |-> 9]
        /\ currentPage = 6

\* C11 (amended): for a 100-page document, page height 800, overscan 2 and
\* viewport height 800, a sample at offset 4000 yields visibleRange {3, 8}
\* (end = ceil(4800 / 800) + 2) and currentPage 6.
ScenarioRangeThreeToEight ==
    ScenarioSample =>
        /\ visibleRange = [start |-> 3, end |-> 8]
        /\ currentPage = 6

\* The scenario's sample has been taken, after scrolling there.
ScenarioSampleTaken ==
    /\ ScenarioSample
    /\ container.scrollTop = 5 * PAGE_HEIGHT
    /\ frames = <<>>

\* C12 (as claimed): with totalPages = 0 the visible range is {0, 0} and the
\* current page is 1, in the initial state and after any scroll sample.
ZeroPagesEmptyRange ==
    config.totalPages = 0 =>
        /\ visibleRange = [start |-> 0, end |-> 0]
        /\ currentPage = 1

\* The size of the range handleScroll computes from the inputs of the last
\* sample, had the overscan been `o`.
SizeWith(o) ==
    VisibleEnd(sample.scrollTop, sample.viewportHeight, sample.config.pageHeight,
               o, sample.config.totalPages)
    - VisibleStart(sample.scrollTop, sample.config.pageHeight, o)

\* C13: for the scroll offset, viewport height, page height and totalPages of
\* a sample, the size end - start is non-decreasing in overscan: the published
\* size is the one computed for the hook's overscan, no smaller overscan gives
\* a larger size and no larger overscan a smaller one.
SizeMonotoneInOverscan ==
    Sampled =>
        /\ visibleRange.end - visibleRange.start = SizeWith(Overscan(sample.config))
        /\ \A a, b \in 0 .. (MaxOverscan + 1) : a <= b => SizeWith(a) <= SizeWith(b)

\* A sample where the overscan makes the range strictly larger than it would
\* be without, and one more page of overscan larger still.
OverscanWidensRange ==
    /\ Sampled
    /\ Overscan(sample.config) >= 1
    /\ SizeWith(0) < visibleRange.end - visibleRange.start
    /\ visibleRange.end - visibleRange.start < SizeWith(Overscan(sample.config) + 1)

\* A scroll sample: a step that runs handleScroll.
SampleStep == HookEffectRun \/ HookAnimationFrame

\* C18: every scroll sample sets isScrolling and restarts the 150 ms quiet
\* period; isScrolling returns to false only by the timeout, when 150 ms have
\* passed since the last sample, and no later than that; and if scroll samples
\* stop, isScrolling eventually is false for good.
IsScrollingDebounced ==
    /\ [][/\ SampleStep => (isScrolling' /\ timerArmed' /\ quietLeft' = QuietMs)
          /\ (isScrolling /\ ~isScrolling') =>
                 (HookQuietElapsed /\ sinceSample = QuietMs)]_vars
    /\ [](isScrolling => (timerArmed /\ (sinceSample = QuietMs => quietLeft = 0)))
    /\ (<>[][~SampleStep]_vars) => <>[](~isScrolling)

\* isScrolling is back to false after a sample that restarted a quiet period
\* already under way.
QuietAfterRestart ==
    /\ Sampled
    /\ ~isScrolling
    /\ sinceSample = QuietMs
    /\ sample.scrollTop # 0

\* C29 (as claimed): once the component has unmounted, visibleRange,
\* currentPage and isScrolling are never updated again and no quiet-period
\* timeout is pending, whatever animation frames were queued before.
QuietAfterUnmount ==
    /\ [](~mounted => ~timerArmed)
    /\ [][~mounted => /\ visibleRange' = visibleRange
                      /\ currentPage' = currentPage
                      /\ isScrolling' = isScrolling]_vars

\* C19: scrollToPage(n) puts the container at (n' - 1) * pageHeight, n' being
\* n clamped to [1, totalPages] (1 for the empty document), and changes nothing
\* the hook publishes: visibleRange, currentPage and isScrolling stay, no
\* sample is taken and no render is requested by the call; without a container
\* the call changes nothing at all.
ScrollToPageOnlyScrolls ==
    [][\A n \in PageArgs :
          HookScrollToPage(n) =>
              /\ visibleRange' = visibleRange
              /\ currentPage' = currentPage
              /\ isScrolling' = isScrolling
              /\ sample' = sample
              /\ timerArmed' = timerArmed
              /\ renders' = renders
              /\ IF container = NoContainer
                 THEN container' = container /\ frames' = frames
                 ELSE /\ container'.scrollTop =
                             (RefCurrentPageArg(n, config.totalPages) - 1)
                                 * config.pageHeight
                      /\ container'.clientHeight = container.clientHeight]_vars

\* scrollToPage moved the container past what the hook has sampled: the range
\* published is still the one of the old offset.
ScrolledToLaterPage ==
    /\ scrolledTo >= 2
    /\ config.totalPages >= 2
    /\ container # NoContainer
    /\ Sampled
    /\ container.scrollTop = (Min(scrolledTo, config.totalPages) - 1) * config.pageHeight
    /\ sample.scrollTop = 0
    /\ frames # <<>>

----------------------------------------------------------------------------
(* Claims about the canvas pool (SpecPool, SpecPoolCalls).                 *)

\* C14: after any sequence of acquire, release, clear and setMaxSize calls the
\* pool holds at most maxSize canvases, and a release into a full pool leaves
\* it as it was, still full: the canvas is dropped, not pooled.
PoolWithinMaxSize ==
    /\ Len(pool) <= poolMaxSize
    /\ lastPool.kind = "dropped" =>
           /\ Len(pool) = poolMaxSize
           /\ pooledOrder # <<>> => pooledOrder[Len(pooledOrder)] = pool[Len(pool)]

\* A held canvas was released into a full pool of at least one canvas.
ReleaseIntoFullPool ==
    /\ lastPool.kind = "dropped"
    /\ lastPool.held
    /\ poolMaxSize >= 1
    /\ lastPool.canvas \notin {pool[i] : i \in 1 .. Len(pool)}

\* C15: acquire on a non-empty pool returns the canvas that entered the pool
\* last among those still in it and takes it (once) out of the pool, creating
\* none; on an empty pool it creates a canvas and leaves the pool empty.
AcquireIsLifo ==
    [][\A w, h \in Dims :
          Acquire(w, h) =>
              IF pool # <<>>
              THEN /\ lastPool'.kind = "hit"
                   /\ lastPool'.canvas = pooledOrder[Len(pooledOrder)]
                   /\ Len(pool') = Len(pool) - 1
                   /\ \A c \in Canvases :
                          Count(pool', c) =
                              Count(pool, c) - (IF c = lastPool'.canvas THEN 1 ELSE 0)
                   /\ nextCanvas' = nextCanvas
              ELSE /\ lastPool'.kind = "miss"
                   /\ lastPool'.canvas = nextCanvas + 1
                   /\ nextCanvas' = nextCanvas + 1
                   /\ pool' = <<>>]_vars

\* acquire took the canvas released last out of a pool of two different
\* canvases after the pool had been empty before (so one was created, too).
LifoHitLeavingOlder ==
    /\ lastPool.kind = "hit"
    /\ Len(pool) = 1
    /\ pool[1] # lastPool.canvas
    /\ nextCanvas >= 2

ExclusiveOwnership ==
    /\ \A c \in Canvases : Count(pool, c) <= 1
    /\ lastPool.kind \in {"hit", "miss"} => ~lastPool.held

----------------------------------------------------------------------------
(* Claims about render requests (SpecRender).                              *)

\* C2 (as claimed): what is exposed for a page is only ever the output of the
\* request issued last for that page: the canvas PDFViewer keeps for it and
\* the canvas its PDFPage shows carry the transform of that request.
OnlyLatestRenderExposed ==
    \A pg \in ViewerPages :
        /\ renderedPages[pg] # NoRender => renderedPages[pg] = latest["viewer"][pg]
        /\ canvasShown[pg] # NoRender => canvasShown[pg] = latest["page"][pg]

\* A step of PDFViewer that computes the visible range anew: the hook's effect
\* at mount or for a new document, or a scroll sample.
RangePass ==
    \/ ViewerMount
    \/ DocumentOpened(ViewerTotalPages)
    \/ ViewerAnimationFrame

\* A step that changes the transform of every page.
TransformChanged == \E sc \in Scales : SetScale(sc)

\* The step issues a PDFViewer request for page p.
ViewerIssues(p) ==
    \E r \in BagToSet(renders') :
        /\ r.kind = "viewer" /\ r.page = p /\ r.pc = "getPage"
        /\ CopiesIn(r, renders') > CopiesIn(r, renders)

\* C20 (as claimed): a page whose render was rejected stays unrendered, the
\* rejection itself issues no request, and the next request for the page is
\* issued only by a step that computes the visible range anew (the hook's
\* effect or a scroll sample) with the page in the range it publishes.  A
\* change of scale, which asks for every page again, is let pass as well.
FailedPageRetriedOnlyByRangePass ==
    [][/\ \A r \in BagToSet(renders) :
              (RenderFailed(r) /\ r.kind = "viewer") =>
                  /\ renderedPages' = renderedPages
                  /\ \A p \in ViewerPages : ~ViewerIssues(p)
       /\ \A p \in failed :
              ViewerIssues(p) =>
                  /\ RangePass \/ TransformChanged
                  /\ IsVisible(p, visibleRange')]_vars

\* C23 (as claimed): a step in which PDFViewer starts a render acquires the
\* render's canvas from the canvas pool (the pool hands out a pooled canvas or
\* creates one), and a step in which a render of PDFViewer fails releases its
\* canvas to the pool.
RendersUsePool ==
    [][/\ \A p \in ViewerPages :
              ViewerIssues(p) =>
                  /\ lastPool'.kind \in {"hit", "miss"}
                  /\ Len(pool') < Len(pool) \/ nextCanvas' > nextCanvas
       /\ \A r \in BagToSet(renders) :
              (RenderFailed(r) /\ r.kind = "viewer") =>
                  lastPool'.kind \in {"pooled", "dropped"}]_vars

\* C24 (as claimed): every page number PDFViewer asks pdfService.renderPage
\* for lies in [1, totalPages].
ViewerRequestsInDocument ==
    \A r \in BagToSet(renders) :
        r.kind = "viewer" => (r.page >= 1 /\ r.page <= config.totalPages)

\* C28 (as claimed): isLoading is true exactly when a render started by
\* PDFViewer is in flight.
IsLoadingTracksRenders ==
    isLoading <=> (\E r \in BagToSet(renders) : r.kind = "viewer")

----------------------------------------------------------------------------
(* Claims about setMaxSize of the canvas pool (SpecPoolResize).            *)

\* C25 (as claimed): every setMaxSize(n) call returns, for negative n and 0 as
\* for positive n, and when it has returned the pool holds at most max(n, 0)
\* canvases.
SetMaxSizeTerminates ==
    /\ resizing ~> ~resizing
    /\ [](lastPool.kind = "setMaxSize" /\ ~resizing =>
              Len(pool) <= Max(poolMaxSize, 0))

----------------------------------------------------------------------------
(* Claims about cloud sync (SpecSync).                                     *)

\* C30 (as claimed): a sync loses no local edit.  The local cache holds, for
\* every id, the version saveLocal stored last; an entry is marked synced only
\* if that version is the one uploaded; and when no sync is running the
\* pending count reported is the number of unsynced entries.
SyncKeepsLocalEdits ==
    /\ \A i \in 1 .. Len(localCache) :
           /\ localCache[i].version = savedVersion[localCache[i].id]
           /\ localCache[i].synced =>
                  uploadedVersion[localCache[i].id] = localCache[i].version
    /\ ~syncing => syncPending = Len(Unsynced(localCache))

====
